---------------------------- MODULE Spec2Model ----------------------------
(***************************************************************************)
(* A model of LDAP-Scout.py: the line parser parse_ldap_output and the     *)
(* classifier find_non_standard_fields.                                    *)
(*                                                                         *)
(* Python dicts keep insertion order, so a dict is modelled as a sequence  *)
(* of [key, val] records without repeated keys.  The parser looks inside   *)
(* its strings (strip, split at a colon), so in the parser a string is a   *)
(* sequence of one-character strings.  The classifier only compares field  *)
(* names and values and tests set membership, so there a string is an atom.*)
(***************************************************************************)
EXTENDS Integers, Sequences, FiniteSets, TLC

VARIABLES
    ldap_lines,                    \* ldap_output.splitlines()
    pos,                           \* number of lines the for loop has consumed
    user,                          \* the accumulator of parse_ldap_output
    users,                         \* the entry collection
    pc,                            \* position in the function being run
    exclude_fields,                \* set of field names
    include_fields,                \* list of field names
    include_all_fields,            \* list of field names
    threshold_level,               \* 1..5
    field_count,                   \* the Counter of find_non_standard_fields
    idx,                           \* index of the next user of the second loop
    non_standard_fields_per_user,  \* primary output
    additional_include_users       \* include-all output

vars == <<ldap_lines, pos, user, users, pc, exclude_fields, include_fields,
          include_all_fields, threshold_level, field_count, idx,
          non_standard_fields_per_user, additional_include_users>>

parserVars == <<ldap_lines, pos, user>>
configVars == <<exclude_fields, include_fields, include_all_fields, threshold_level>>
classifierVars == <<field_count, idx, non_standard_fields_per_user,
                    additional_include_users>>

(***************************************************************************)
(* Bounds of the model.                                                    *)
(***************************************************************************)
MaxLines == 4
MaxCore == 2
PadLen == 9

SeqUpTo(S, n) == UNION {[1..k -> S] : k \in 0..n}

(***************************************************************************)
(* Ordered dicts.                                                          *)
(***************************************************************************)
Keys(d) == [i \in 1..Len(d) |-> d[i].key]

KeySet(d) == {d[i].key : i \in 1..Len(d)}

HasKey(d, k) == \E i \in 1..Len(d) : d[i].key = k

IndexOf(d, k) == CHOOSE i \in 1..Len(d) : d[i].key = k

Get(d, k) == d[IndexOf(d, k)].val

Put(d, k, v) ==
    IF HasKey(d, k)
    THEN [d EXCEPT ![IndexOf(d, k)] = [key |-> k, val |-> v]]
    ELSE Append(d, [key |-> k, val |-> v])

(***************************************************************************)
(* str.strip, the test ":" in line, and line.split(":", 1).                *)
(***************************************************************************)
RECURSIVE LStrip(_)
LStrip(s) == IF s # <<>> /\ Head(s) = " " THEN LStrip(Tail(s)) ELSE s

RECURSIVE RStrip(_)
RStrip(s) ==
    IF s # <<>> /\ s[Len(s)] = " " THEN RStrip(SubSeq(s, 1, Len(s) - 1)) ELSE s

Strip(s) == RStrip(LStrip(s))

HasColon(s) == \E i \in 1..Len(s) : s[i] = ":"

SplitAt(s) == CHOOSE i \in 1..Len(s) : s[i] = ":" /\ \A j \in 1..(i - 1) : s[j] # ":"

SplitKey(s) == Strip(SubSeq(s, 1, SplitAt(s) - 1))

SplitValue(s) == Strip(SubSeq(s, SplitAt(s) + 1, Len(s)))

(***************************************************************************)
(* parse_ldap_output.                                                      *)
(***************************************************************************)
LineChoices ==
    { <<>>,
      <<"a", ":", "1">>,
      <<"b", ":", " ", "2">>,
      <<"a", ":", "b", ":", "c">>,
      <<" ", "x">>,
      <<":", "v">>,
      <<"a", ":", " ">> }

CurLine == Strip(ldap_lines[pos + 1])

\* A repeated key overwrites the earlier values.
AddValue_Overwrite(u, key, value) == Put(u, key, <<value>>)

AddValue(u, key, value) ==
    IF HasKey(u, key)
    THEN Put(u, key, Append(Get(u, key), value))
    ELSE Put(u, key, <<value>>)

Continue(u, line) ==
    IF u # <<>> /\ u[Len(u)].key # <<>>
    THEN LET last_key == u[Len(u)].key
             vals == Get(u, last_key)
         IN  Put(u, last_key,
                 [vals EXCEPT ![Len(vals)] = @ \o <<" ">> \o Strip(line)])
    ELSE u

\* The accumulator is appended without the emptiness test.
Flush_Always(us, u) == Append(us, u)

Flush(us, u) == IF u # <<>> THEN Append(us, u) ELSE us

BlankLine ==
    /\ pc = "parse"
    /\ pos < Len(ldap_lines)
    /\ CurLine = <<>>
    /\ users' = Flush(users, user)
    /\ user' = <<>>
    /\ pos' = pos + 1
    /\ UNCHANGED <<ldap_lines, pc, configVars, classifierVars>>

AttributeLine ==
    /\ pc = "parse"
    /\ pos < Len(ldap_lines)
    /\ CurLine # <<>>
    /\ HasColon(CurLine)
    /\ user' = AddValue(user, SplitKey(CurLine), SplitValue(CurLine))
    /\ pos' = pos + 1
    /\ UNCHANGED <<ldap_lines, users, pc, configVars, classifierVars>>

ContinuationLine ==
    /\ pc = "parse"
    /\ pos < Len(ldap_lines)
    /\ CurLine # <<>>
    /\ ~HasColon(CurLine)
    /\ user' = Continue(user, CurLine)
    /\ pos' = pos + 1
    /\ UNCHANGED <<ldap_lines, users, pc, configVars, classifierVars>>

EndOfInput ==
    /\ pc = "parse"
    /\ pos = Len(ldap_lines)
    /\ users' = Flush(users, user)
    /\ pc' = "parsed"
    /\ UNCHANGED <<ldap_lines, pos, user, configVars, classifierVars>>

EmptyCounter == [f \in {} |-> 0]

ParseInit ==
    /\ ldap_lines \in SeqUpTo(LineChoices, MaxLines)
    /\ pos = 0
    /\ user = <<>>
    /\ users = <<>>
    /\ pc = "parse"
    /\ exclude_fields = {}
    /\ include_fields = <<>>
    /\ include_all_fields = <<>>
    /\ threshold_level = 2
    /\ field_count = EmptyCounter
    /\ idx = 0
    /\ non_standard_fields_per_user = <<>>
    /\ additional_include_users = <<>>

ParseNext == BlankLine \/ AttributeLine \/ ContinuationLine \/ EndOfInput

SpecParse == ParseInit /\ [][ParseNext]_vars

(***************************************************************************)
(* What the input looks like, read off ldap_lines alone: the maximal runs  *)
(* of non-blank lines and their attribute (colon) lines.                   *)
(***************************************************************************)
Trimmed(i) == Strip(ldap_lines[i])

IsBlankAt(i) == Trimmed(i) = <<>>

IsAttrAt(i) == ~IsBlankAt(i) /\ \E c \in 1..Len(Trimmed(i)) : Trimmed(i)[c] = ":"

ColonIdx(l) == CHOOSE c \in 1..Len(l) : l[c] = ":" /\ ~\E b \in 1..(c - 1) : l[b] = ":"

RefKey(i) == Strip(SubSeq(Trimmed(i), 1, ColonIdx(Trimmed(i)) - 1))

RefValue(i) ==
    Strip(SubSeq(Trimmed(i), ColonIdx(Trimmed(i)) + 1, Len(Trimmed(i))))

RunStarts ==
    {j \in 1..Len(ldap_lines) : ~IsBlankAt(j) /\ (j = 1 \/ IsBlankAt(j - 1))}

RunEnd(j) ==
    CHOOSE e \in j..Len(ldap_lines) :
        /\ \A m \in j..e : ~IsBlankAt(m)
        /\ (e = Len(ldap_lines) \/ IsBlankAt(e + 1))

AttrLinesOf(j) == {m \in j..RunEnd(j) : IsAttrAt(m)}

RECURSIVE SortedSeq(_)
SortedSeq(S) ==
    IF S = {} THEN <<>>
    ELSE LET m == CHOOSE x \in S : \A y \in S : x <= y
         IN  <<m>> \o SortedSeq(S \ {m})

\* The runs holding an attribute line that the parser has closed so far.
EmittedRuns ==
    SortedSeq({j \in RunStarts :
                 /\ AttrLinesOf(j) # {}
                 /\ (pc = "parsed" \/ RunEnd(j) < pos)})

\* The consumed lines of the run the parser is in (none after a blank line).
OpenLines == {m \in 1..pos : \A n \in m..pos : ~IsBlankAt(n)}

IsPrefix(s, t) == Len(s) <= Len(t) /\ SubSeq(t, 1, Len(s)) = s

LatestAttrLine ==
    CHOOSE j \in 1..pos : IsAttrAt(j) /\ \A m \in (j + 1)..pos : ~IsAttrAt(m)

ContinuedLatest ==
    LET k == RefKey(LatestAttrLine)
        vals == Get(user, k)
    IN  Put(user, k, [vals EXCEPT ![Len(vals)] = @ \o <<" ">> \o CurLine])

(***************************************************************************)
(* C4: a no-colon line read while the accumulator is not empty appends a   *)
(* space and the trimmed line to the value most recently added (by the     *)
(* latest attribute line of the entry), and changes nothing else.          *)
(***************************************************************************)
C4_ContinuationTarget ==
    [][(/\ pc = "parse"
        /\ pos < Len(ldap_lines)
        /\ CurLine # <<>>
        /\ ~HasColon(CurLine)
        /\ user # <<>>) => user' = ContinuedLatest]_vars

(***************************************************************************)
(* C7: the collection holds, in source order, one entry per maximal run of *)
(* non-blank lines with an attribute line; no entry is empty, every key    *)
(* has a value; a final run without a blank line after it is emitted; a    *)
(* no-colon line on an empty accumulator changes nothing.                  *)
(***************************************************************************)
C7_EntrySegmentation ==
    /\ \A i \in 1..Len(users) :
          /\ users[i] # <<>>
          /\ \A m \in 1..Len(users[i]) : users[i][m].val # <<>>
    /\ Len(users) = Len(EmittedRuns)
    /\ \A i \in 1..Len(users) :
          Len(users) = Len(EmittedRuns) =>
              KeySet(users[i]) = {RefKey(m) : m \in AttrLinesOf(EmittedRuns[i])}
    /\ pc = "parse" => (user = <<>> <=> ~\E m \in OpenLines : IsAttrAt(m))
    /\ (pc = "parsed" /\ ldap_lines = <<>>) => users = <<>>

C7_Witness ==
    /\ pc = "parsed"
    /\ ldap_lines = << <<" ", "x">>, <<>>, <<>>, <<"a", ":", "1">> >>
    /\ users = << << [key |-> <<"a">>, val |-> << <<"1">> >>] >> >>

LinesWithKey(j, k) == SortedSeq({m \in AttrLinesOf(j) : RefKey(m) = k})

FirstSeenKeys(j) ==
    LET firsts == {m \in AttrLinesOf(j) :
                     \A n \in AttrLinesOf(j) : n < m => RefKey(n) # RefKey(m)}
        order == SortedSeq(firsts)
    IN  [i \in 1..Len(order) |-> RefKey(order[i])]

HasContinuation(j) == \E m \in j..RunEnd(j) : ~IsAttrAt(m)

(***************************************************************************)
(* C9: within an entry every key holds one value per attribute line with   *)
(* that key, in line order (the trimmed text after the first colon, which  *)
(* later continuation lines may extend), and keys keep first-seen order.   *)
(***************************************************************************)
C9_MultiValueAccumulation ==
    pc = "parsed" =>
        /\ Len(users) = Len(EmittedRuns)
        /\ \A i \in 1..Len(users) :
              Len(users) = Len(EmittedRuns) =>
                  LET j == EmittedRuns[i] IN
                  /\ Keys(users[i]) = FirstSeenKeys(j)
                  /\ \A e \in 1..Len(users[i]) :
                        LET at == LinesWithKey(j, users[i][e].key)
                            vals == users[i][e].val
                        IN  /\ Len(vals) = Len(at)
                            /\ \A n \in 1..Len(vals) :
                                  Len(vals) = Len(at) =>
                                      /\ IsPrefix(RefValue(at[n]), vals[n])
                                      /\ ~HasContinuation(j) =>
                                             vals[n] = RefValue(at[n])

C9_Witness ==
    /\ pc = "parsed"
    /\ ldap_lines = << <<"a", ":", "1">>, <<"b", ":", " ", "2">>,
                       <<"a", ":", "b", ":", "c">>, <<"a", ":", " ">> >>
    /\ users = << << [key |-> <<"a">>,
                      val |-> << <<"1">>, <<"b", ":", "c">>, <<>> >>],
                     [key |-> <<"b">>, val |-> << <<"2">> >>] >> >>

(***************************************************************************)
(* standard_ldap_fields and threshold_levels.  A threshold is kept as a    *)
(* whole percentage: count < total * fraction is count * 100 < total * pct,*)
(* and the float product decides the comparison the same way for every     *)
(* total below 200.                                                        *)
(***************************************************************************)
standard_ldap_fields ==
    { "dn", "objectClass", "cn", "sn", "givenName", "distinguishedName",
      "instanceType", "whenCreated", "whenChanged", "displayName",
      "uSNCreated", "uSNChanged", "name", "objectGUID", "userAccountControl",
      "badPwdCount", "codePage", "countryCode", "badPasswordTime",
      "lastLogoff", "lastLogon", "pwdLastSet", "primaryGroupID", "objectSid",
      "adminCount", "accountExpires", "logonCount", "sAMAccountName",
      "sAMAccountType", "objectCategory", "isCriticalSystemObject",
      "dSCorePropagationData", "telephoneNumber", "mail", "memberOf",
      "description", "title", "department", "company", "streetAddress",
      "postalCode", "c", "l", "st" }

\* The 95% of level 5 typed as 9%.
threshold_levels_Typo == <<10, 25, 50, 75, 9>>

threshold_levels == <<10, 25, 50, 75, 95>>

Range(s) == {s[i] : i \in 1..Len(s)}

(***************************************************************************)
(* collections.Counter: a missing key counts 0.                            *)
(***************************************************************************)
CounterGet(c, k) == IF k \in DOMAIN c THEN c[k] ELSE 0

CounterAdd(c, k, n) ==
    IF k \in DOMAIN c THEN [c EXCEPT ![k] = @ + n] ELSE c @@ (k :> n)

\* Every value of a key is counted, not the key once.
CountUser_PerValue(c, u) ==
    LET F[i \in 0..Len(u)] ==
            IF i = 0 THEN c ELSE CounterAdd(F[i - 1], u[i].key, Len(u[i].val))
    IN  F[Len(u)]

CountUser(c, u) ==
    LET F[i \in 0..Len(u)] ==
            IF i = 0 THEN c ELSE CounterAdd(F[i - 1], Keys(u)[i], 1)
    IN  F[Len(u)]

CountAll(us) ==
    LET F[i \in 0..Len(us)] ==
            IF i = 0 THEN EmptyCounter ELSE CountUser(F[i - 1], us[i])
    IN  F[Len(us)]

(***************************************************************************)
(* validate_fields.                                                        *)
(***************************************************************************)
validate_fields(fields, existing_fields) ==
    SelectSeq(fields, LAMBDA f : f \in existing_fields)

(***************************************************************************)
(* find_non_standard_fields: the body of the loop over users.              *)
(***************************************************************************)
Username(u) == IF HasKey(u, "cn") THEN Get(u, "cn")[1] ELSE "Unknown"

\* The description carve-out is left out.
Skipped_NoCarveOut(u) == Username(u) = "Unknown"

Skipped(u) == Username(u) = "Unknown" /\ ~HasKey(u, "description")

\* <= for <.
IsRare_Inclusive(count, total, lvl) == count * 100 <= total * threshold_levels[lvl]

IsRare(count, total, lvl) == count * 100 < total * threshold_levels[lvl]

LabelOf(f) ==
    IF f \notin standard_ldap_fields
    THEN "Non-Standard Field" ELSE "Rare Standard Field"

NonStandardUserData(u, fc, total, ex, lvl) ==
    LET F[i \in 0..Len(u)] ==
            IF i = 0 THEN <<>>
            ELSE LET field == u[i].key IN
                 IF /\ field \notin ex
                    /\ \/ field \notin standard_ldap_fields
                       \/ IsRare(CounterGet(fc, field), total, lvl)
                 THEN Put(F[i - 1], field,
                          [label |-> LabelOf(field), value |-> u[i].val])
                 ELSE F[i - 1]
    IN  F[Len(u)]

WithIncluded(data, u, inc) ==
    LET F[i \in 0..Len(inc)] ==
            IF i = 0 THEN data
            ELSE IF HasKey(u, inc[i])
                 THEN Put(F[i - 1], inc[i],
                          [label |-> "Included Field", value |-> Get(u, inc[i])])
                 ELSE F[i - 1]
    IN  F[Len(inc)]

\* The include fields are merged in before the emptiness test.
PrimaryRecords_IncludeFirst(u, fc, total, ex, inc, lvl) ==
    LET data == WithIncluded(NonStandardUserData(u, fc, total, ex, lvl), u, inc)
    IN  IF data # <<>> THEN <<[name |-> Username(u), data |-> data]>> ELSE <<>>

\* What lines 124-140 append to non_standard_fields_per_user for one user.
PrimaryRecords(u, fc, total, ex, inc, lvl) ==
    LET data == NonStandardUserData(u, fc, total, ex, lvl)
    IN  IF data # <<>>
        THEN <<[name |-> Username(u), data |-> WithIncluded(data, u, inc)]>>
        ELSE <<>>

IncludeAllUserData(u, incall) ==
    LET F[i \in 0..Len(incall)] ==
            IF i = 0 THEN <<>>
            ELSE IF HasKey(u, incall[i])
                 THEN Put(F[i - 1], incall[i],
                          [label |-> "Include-All Field",
                           value |-> Get(u, incall[i])])
                 ELSE F[i - 1]
    IN  F[Len(incall)]

\* What lines 143-148 append to additional_include_users for one user.
AdditionalRecords(u, incall) ==
    IF incall # <<>> /\ \E f \in Range(incall) : HasKey(u, f)
    THEN <<[name |-> Username(u), data |-> IncludeAllUserData(u, incall)]>>
    ELSE <<>>

(***************************************************************************)
(* The inputs of find_non_standard_fields: up to MaxCore entries of        *)
(* UserChoices, followed by no or PadLen ordinary entries (so that totals  *)
(* reach the 11 entries at which a single occurrence is below 10%).        *)
(***************************************************************************)
Entry(pairs) == [i \in 1..Len(pairs) |-> [key |-> pairs[i][1], val |-> pairs[i][2]]]

PlainUser == Entry(<< <<"cn", <<"alice">> >>, <<"mail", <<"a@x">> >> >>)

UserChoices ==
    { PlainUser,
      Entry(<< <<"cn", <<"bob">> >>, <<"mail", <<"b@x", "b@y">> >>,
               <<"description", <<"d">> >> >>),
      Entry(<< <<"cn", <<"carol">> >>, <<"mail", <<"c@x">> >>,
               <<"extensionAttribute1", <<"e">> >> >>),
      Entry(<< <<"mail", <<"n@x">> >>, <<"extensionAttribute1", <<"e">> >> >>),
      Entry(<< <<"description", <<"svc">> >>,
               <<"extensionAttribute1", <<"e">> >> >>),
      Entry(<< <<"cn", <<"Unknown">> >>, <<"extensionAttribute1", <<"e">> >> >>) }

ExcludeChoices == { {}, {"mail"}, {"extensionAttribute1"} }

IncludeChoices == { <<>>, <<"mail", "extensionAttribute1">> }

IncludeAllChoices == { <<>>, <<"mail", "description">> }

AllFields(us) == UNION {KeySet(us[i]) : i \in 1..Len(us)}

ClassifyInit ==
    /\ ldap_lines = <<>>
    /\ pos = 0
    /\ user = <<>>
    /\ \E core \in SeqUpTo(UserChoices, MaxCore), pad \in {0, PadLen} :
          users = core \o [i \in 1..pad |-> PlainUser]
    /\ pc = "count"
    /\ exclude_fields \in ExcludeChoices
    /\ \E inc \in IncludeChoices :
          include_fields = validate_fields(inc, AllFields(users))
    /\ \E incall \in IncludeAllChoices :
          include_all_fields = validate_fields(incall, AllFields(users))
    /\ threshold_level \in 1..5
    /\ field_count = EmptyCounter
    /\ idx = 0
    /\ non_standard_fields_per_user = <<>>
    /\ additional_include_users = <<>>

CountFields ==
    /\ pc = "count"
    /\ field_count' = CountAll(users)
    /\ idx' = 1
    /\ pc' = "classify"
    /\ UNCHANGED <<parserVars, users, configVars,
                   non_standard_fields_per_user, additional_include_users>>

SkipUser ==
    /\ pc = "classify"
    /\ idx <= Len(users)
    /\ Skipped(users[idx])
    /\ idx' = idx + 1
    /\ UNCHANGED <<parserVars, users, pc, configVars, field_count,
                   non_standard_fields_per_user, additional_include_users>>

ClassifyUser ==
    /\ pc = "classify"
    /\ idx <= Len(users)
    /\ ~Skipped(users[idx])
    /\ non_standard_fields_per_user' =
           non_standard_fields_per_user \o
               PrimaryRecords(users[idx], field_count, Len(users),
                              exclude_fields, include_fields, threshold_level)
    /\ additional_include_users' =
           additional_include_users \o
               AdditionalRecords(users[idx], include_all_fields)
    /\ idx' = idx + 1
    /\ UNCHANGED <<parserVars, users, pc, configVars, field_count>>

Return ==
    /\ pc = "classify"
    /\ idx > Len(users)
    /\ pc' = "done"
    /\ UNCHANGED <<parserVars, users, configVars, classifierVars>>

ClassifyNext == CountFields \/ SkipUser \/ ClassifyUser \/ Return

SpecClassify == ClassifyInit /\ [][ClassifyNext]_vars

(***************************************************************************)
(* The notions of the properties below, read off users and the             *)
(* configuration alone.                                                    *)
(***************************************************************************)
Counted == pc \in {"classify", "done"}

Possesses(u, f) == \E i \in 1..Len(u) : u[i].key = f

DisplayName(u) ==
    IF Possesses(u, "cn")
    THEN (CHOOSE e \in Range(u) : e.key = "cn").val[1]
    ELSE "Unknown"

LeftOut(u) == DisplayName(u) = "Unknown" /\ ~Possesses(u, "description")

Frequency(f) == Cardinality({k \in 1..Len(users) : Possesses(users[k], f)})

Fraction == <<10, 25, 50, 75, 95>>

BelowThreshold(f, lvl) == Frequency(f) * 100 < Len(users) * Fraction[lvl]

Admitted(f) ==
    /\ f \notin exclude_fields
    /\ f \notin standard_ldap_fields \/ BelowThreshold(f, threshold_level)

HasAdmitted(u) == \E f \in KeySet(u) : Admitted(f)

NamesOf(records) == [i \in 1..Len(records) |-> records[i].name]

LabelIn(record, f) ==
    IF HasKey(record.data, f) THEN Get(record.data, f).label ELSE "absent"

\* The user the loop is about to handle, when it is not left out.
AtUser == pc = "classify" /\ idx <= Len(users) /\ ~LeftOut(users[idx])

\* The label f has in the primary record the step appends; "absent" if the
\* step appends none or the record has no such key.
NewLabel(f) ==
    IF Len(non_standard_fields_per_user') = Len(non_standard_fields_per_user) + 1
    THEN LabelIn(non_standard_fields_per_user'[Len(non_standard_fields_per_user')], f)
    ELSE "absent"

(***************************************************************************)
(* C1: an attribute in both the exclude-set and the include-set never is a *)
(* key of a primary record (a record only has keys its entry possesses).   *)
(***************************************************************************)
C1_ExclusionPrecedence ==
    \A i \in 1..Len(non_standard_fields_per_user) :
        \A f \in exclude_fields \cap Range(include_fields) :
            ~HasKey(non_standard_fields_per_user[i].data, f)

(***************************************************************************)
(* C2: the include-all output holds exactly one record, in order, for      *)
(* every entry possessing an attribute of the include-all-set, whether or  *)
(* not the entry is left out of or present in the primary output.          *)
(***************************************************************************)
C2_IncludeAllIndependent ==
    pc = "done" =>
        NamesOf(additional_include_users) =
            NamesOf(SelectSeq([k \in 1..Len(users) |->
                                  [name |-> DisplayName(users[k]), u |-> users[k]]],
                              LAMBDA r : \E f \in Range(include_all_fields) :
                                             Possesses(r.u, f)))

(***************************************************************************)
(* C3: an entry without a non-excluded non-standard or rare attribute adds *)
(* nothing to the primary output, whatever include fields it has; every    *)
(* primary record has a key admitted by the non-standard or rare rule.     *)
(***************************************************************************)
C3_IncludeGating ==
    /\ [](Counted =>
            \A i \in 1..Len(non_standard_fields_per_user) :
                \E f \in KeySet(non_standard_fields_per_user[i].data) : Admitted(f))
    /\ [][(pc = "classify" /\ idx <= Len(users) /\ ~HasAdmitted(users[idx]))
              => UNCHANGED non_standard_fields_per_user]_vars

C3_Witness ==
    /\ pc = "done"
    /\ non_standard_fields_per_user # <<>>
    /\ \E k \in 1..Len(users) :
          /\ ~LeftOut(users[k])
          /\ ~HasAdmitted(users[k])
          /\ \E f \in Range(include_fields) : Possesses(users[k], f)
          /\ DisplayName(users[k]) \notin Range(NamesOf(non_standard_fields_per_user))

PrimaryAt(k, lvl) ==
    IF Skipped(users[k]) THEN <<>>
    ELSE PrimaryRecords(users[k], field_count, Len(users), exclude_fields,
                        include_fields, lvl)

RareAt(k, lvl) ==
    {f \in KeySet(users[k]) :
        /\ PrimaryAt(k, lvl) # <<>>
        /\ LabelIn(PrimaryAt(k, lvl)[1], f) = "Rare Standard Field"}

(***************************************************************************)
(* C5: a pair (entry, attribute) labelled "Rare Standard Field" in the     *)
(* primary output at level L is labelled so at level L + 1, L in 1..4.     *)
(***************************************************************************)
C5_ThresholdMonotonicity ==
    pc = "done" =>
        \A k \in 1..Len(users) : \A lvl \in 1..4 :
            RareAt(k, lvl) \subseteq RareAt(k, lvl + 1)

C5_Witness ==
    /\ pc = "done"
    /\ threshold_level = 1
    /\ \E k \in 1..Len(users) :
          /\ RareAt(k, 1) # {}
          /\ \E i \in 1..Len(non_standard_fields_per_user) :
                non_standard_fields_per_user[i] = PrimaryAt(k, 1)[1]
    /\ \E k \in 1..Len(users) : \E lvl \in 1..4 :
          RareAt(k, lvl) # RareAt(k, lvl + 1)

(***************************************************************************)
(* C6: the primary output holds, in order, exactly the entries that are    *)
(* not (named "Unknown" and without description) and have an admitted      *)
(* attribute; an undescribed nameless entry never appears, a described one *)
(* appears under the name "Unknown".                                       *)
(***************************************************************************)
C6_PrimarySkipRule ==
    Counted =>
        NamesOf(non_standard_fields_per_user) =
            NamesOf(SelectSeq([k \in 1..(idx - 1) |->
                                  [name |-> DisplayName(users[k]), u |-> users[k]]],
                              LAMBDA r : ~LeftOut(r.u) /\ HasAdmitted(r.u)))

C6_Witness ==
    /\ pc = "done"
    /\ "Unknown" \in Range(NamesOf(non_standard_fields_per_user))
    /\ \E k \in 1..Len(users) :
          ~Possesses(users[k], "cn") /\ LeftOut(users[k]) /\ HasAdmitted(users[k])
    /\ \E k \in 1..Len(users) :
          ~Possesses(users[k], "cn") /\ Possesses(users[k], "description")

(***************************************************************************)
(* C8: every count of the frequency table is the number of entries holding *)
(* the attribute (once per entry), between 1 and the number of entries,    *)
(* and the number of entries for an attribute every entry has.             *)
(***************************************************************************)
C8_FrequencyBounds ==
    Counted =>
        /\ DOMAIN field_count = AllFields(users)
        /\ \A f \in DOMAIN field_count :
              /\ field_count[f] = Frequency(f)
              /\ 1 <= field_count[f] /\ field_count[f] <= Len(users)
              /\ (\A k \in 1..Len(users) : Possesses(users[k], f))
                    => field_count[f] = Len(users)

C8_Witness ==
    /\ pc = "done"
    /\ \E f \in DOMAIN field_count : field_count[f] = Len(users)
    /\ \E f \in DOMAIN field_count : field_count[f] < Len(users)
    /\ \E k \in 1..Len(users) : \E i \in 1..Len(users[k]) : Len(users[k][i].val) > 1

(***************************************************************************)
(* C10, as stated: for an entry that is not left out and an attribute of   *)
(* it outside the exclude-set, and any include-set: a non-standard         *)
(* attribute is in the primary record labelled "Non-Standard Field", a     *)
(* standard one below the threshold labelled "Rare Standard Field", and a  *)
(* standard one at or above it and outside the include-set is absent.      *)
(***************************************************************************)
C10_Labels ==
    [][AtUser =>
          \A f \in KeySet(users[idx]) \ exclude_fields :
              /\ f \notin standard_ldap_fields
                    => NewLabel(f) = "Non-Standard Field"
              /\ (f \in standard_ldap_fields /\ BelowThreshold(f, threshold_level))
                    => NewLabel(f) = "Rare Standard Field"
              /\ (/\ f \in standard_ldap_fields
                  /\ ~BelowThreshold(f, threshold_level)
                  /\ f \notin Range(include_fields))
                    => NewLabel(f) = "absent"]_vars

(***************************************************************************)
(* C10, amended: the two labels are those of the attributes outside the    *)
(* include-set; an admitted attribute of the include-set is in the record  *)
(* labelled "Included Field".                                              *)
(***************************************************************************)
C10_LabelsUnlessIncluded ==
    [][AtUser =>
          \A f \in KeySet(users[idx]) \ exclude_fields :
              /\ (f \notin standard_ldap_fields /\ f \notin Range(include_fields))
                    => NewLabel(f) = "Non-Standard Field"
              /\ (/\ f \in standard_ldap_fields
                  /\ BelowThreshold(f, threshold_level)
                  /\ f \notin Range(include_fields))
                    => NewLabel(f) = "Rare Standard Field"
              /\ (Admitted(f) /\ f \in Range(include_fields))
                    => NewLabel(f) = "Included Field"
              /\ (/\ f \in standard_ldap_fields
                  /\ ~BelowThreshold(f, threshold_level)
                  /\ f \notin Range(include_fields))
                    => NewLabel(f) = "absent"]_vars

C10_Witness ==
    /\ pc = "done"
    /\ \E i \in 1..Len(non_standard_fields_per_user) :
          LET r == non_standard_fields_per_user[i] IN
          /\ \E f \in KeySet(r.data) : LabelIn(r, f) = "Rare Standard Field"
          /\ \E f \in KeySet(r.data) \ standard_ldap_fields :
                LabelIn(r, f) = "Included Field"

=============================================================================
